---- MODULE Spec2Model ----
(***************************************************************************)
(* Decimal coins of the cosmos-sdk types package: DecCoin, DecCoins, their *)
(* merge arithmetic (Plus, Minus, Negative), truncation with change,       *)
(* validation and parsing.                                                 *)
(*                                                                         *)
(* A Dec is an integer scaled by 10^Precision.  A denom is a string,       *)
(* modelled as the sequence of its bytes, so that Go's string comparison   *)
(* is the lexicographic order on byte sequences.  A DecCoin is a record    *)
(* [Denom, Amount]; a DecCoins is a sequence of DecCoin.                   *)
(***************************************************************************)
EXTENDS Integers, Sequences, FiniteSets, TLC

VARIABLES
    op,       \* the operation applied last ("init" before any)
    coinsA,   \* receiver / first operand (DecCoins)
    coinsB,   \* second operand (DecCoins)
    coinsC,   \* third operand (DecCoins)
    sum,      \* DecCoins returned by the operation (sum, changeSum, parsed coins)
    out,      \* Coins returned by TruncateDecimal
    status,   \* "ok", "panic" or "error": how the operation ended
    valid,    \* the boolean returned by IsValid
    str,      \* the string given to ParseDecCoins (sequence of bytes)
    pool,     \* settlement: the current pool (DecCoins)
    paid,     \* settlement: integer amount paid out so far, per denom
    p0,       \* settlement: the original pool
    text,     \* the string returned by String (sequence of bytes)
    dn,       \* the denom given to AmountOf
    amt       \* the Dec returned by AmountOf

vars == <<op, coinsA, coinsB, coinsC, sum, out, status, valid, str, pool, paid, p0,
          text, dn, amt>>

----------------------------------------------------------------------------
(* Bounds *)

\* decimal digits of a Dec in the model (the sdk's Dec carries more)
Precision == 1
\* amounts of the operand sets are multiples of one half, up to MaxHalves halves
MaxHalves == 2
\* amounts given to truncation and settlement are up to MaxTruncHalves halves
MaxTruncHalves == 3
\* longest unsorted coin sequence given to IsValid
MaxLen == 3
\* most tokens in a string given to ParseDecCoins
MaxTokens == 3

----------------------------------------------------------------------------
(* Dec: fixed-point decimal, an integer scaled by precisionReuse *)

RECURSIVE Pow10(_)
Pow10(n) == IF n = 0 THEN 1 ELSE 10 * Pow10(n - 1)

precisionReuse == Pow10(Precision)

ZeroDec == 0
OneDec == precisionReuse
Add(d, d2) == d + d2
Sub(d, d2) == d - d2
Neg(d) == 0 - d
IsZero(d) == d = 0
IsPositiveDec(d) == d > 0
IsNegative(d) == d < 0
LT(d, d2) == d < d2
LTE(d, d2) == d <= d2
NewDecFromInt(i) == i * precisionReuse

\* integer quotient rounding toward zero (big.Int.Quo)
QuoTowardZero(a, b) == IF a >= 0 THEN a \div b ELSE 0 - ((0 - a) \div b)

\* the integer part of d, rounding toward zero
TruncateInt(d) == QuoTowardZero(d, precisionReuse)

\* the product cut to Precision digits, rounding toward zero
MulTruncate(d, d2) == QuoTowardZero(d * d2, precisionReuse)

----------------------------------------------------------------------------
(* Denoms: byte sequences *)

SPACE == 32

dnA == <<97>>              \* "a"
dnAB == <<97, 98>>         \* "ab"
dnB == <<98>>              \* "b"
dnUpper == <<66>>          \* "B"
dnSpace == <<97, 32, 98>>  \* "a b"

GoodDenoms == {dnA, dnAB, dnB}
AllDenoms == GoodDenoms \cup {dnUpper, dnSpace}

\* strings.Compare: -1, 0 or 1 by lexicographic byte order
RECURSIVE Compare(_, _)
Compare(a, b) ==
    IF a = <<>> /\ b = <<>> THEN 0
    ELSE IF a = <<>> THEN -1
    ELSE IF b = <<>> THEN 1
    ELSE IF Head(a) < Head(b) THEN -1
    ELSE IF Head(a) > Head(b) THEN 1
    ELSE Compare(Tail(a), Tail(b))

validateCoinDenomContainsSpace(denom) ==
    IF \E i \in 1..Len(denom) : denom[i] = SPACE THEN "err" ELSE "nil"

IsUpper(b) == b >= 65 /\ b <= 90

validateCoinDenomCase(denom) ==
    IF \E i \in 1..Len(denom) : IsUpper(denom[i]) THEN "err" ELSE "nil"

----------------------------------------------------------------------------
(* DecCoin *)

DecCoin(denom, amount) == [Denom |-> denom, Amount |-> amount]

validateDecCoinAmount(amount, strict) ==
    IF strict /\ LTE(amount, ZeroDec) THEN "err"
    ELSE IF ~strict /\ LT(amount, ZeroDec) THEN "err"
    ELSE "nil"

Validate(coin, strict) ==
    IF validateDecCoinAmount(coin.Amount, strict) # "nil" THEN "err"
    ELSE IF validateCoinDenomContainsSpace(coin.Denom) # "nil" THEN "err"
    ELSE IF validateCoinDenomCase(coin.Denom) # "nil" THEN "err"
    ELSE "nil"

\* a call either returns a value or panics
Return(v) == [panic |-> FALSE, val |-> v]
Panic == [panic |-> TRUE]

NewDecCoinFromDec(denom, amount) ==
    LET c == DecCoin(denom, amount)
    IN  IF Validate(c, FALSE) # "nil" THEN Panic ELSE Return(c)

\* the integer Coin constructor: panics on a negative amount or a bad denom
NewCoin(denom, amount) ==
    IF amount < 0 THEN Panic
    ELSE IF validateCoinDenomContainsSpace(denom) # "nil" THEN Panic
    ELSE IF validateCoinDenomCase(denom) # "nil" THEN Panic
    ELSE Return(DecCoin(denom, amount))

DecCoinPlus(coin, coinB) ==
    IF coin.Denom # coinB.Denom THEN Panic
    ELSE Return(DecCoin(coin.Denom, Add(coin.Amount, coinB.Amount)))

\* slip: a negative difference is clamped to zero
DecCoinMinus_Clamped(coin, coinB) ==
    IF coin.Denom # coinB.Denom THEN Panic
    ELSE Return(DecCoin(coin.Denom,
                        IF IsNegative(Sub(coin.Amount, coinB.Amount)) THEN ZeroDec
                        ELSE Sub(coin.Amount, coinB.Amount)))

DecCoinMinus(coin, coinB) ==
    IF coin.Denom # coinB.Denom THEN Panic
    ELSE Return(DecCoin(coin.Denom, Sub(coin.Amount, coinB.Amount)))

\* slip: the change is dropped (returned as zero)
DecCoinTruncateDecimal_NoChange(coin) ==
    LET c == NewCoin(coin.Denom, TruncateInt(coin.Amount))
        dc == NewDecCoinFromDec(coin.Denom, ZeroDec)
    IN  IF c.panic \/ dc.panic THEN Panic
        ELSE Return([truncated |-> c.val, change |-> dc.val])

\* (Coin, DecCoin): the truncated coin and the change
DecCoinTruncateDecimal(coin) ==
    LET truncated == TruncateInt(coin.Amount)
        change == Sub(coin.Amount, NewDecFromInt(truncated))
        c == NewCoin(coin.Denom, truncated)
        dc == NewDecCoinFromDec(coin.Denom, change)
    IN  IF c.panic \/ dc.panic THEN Panic
        ELSE Return([truncated |-> c.val, change |-> dc.val])

IsPositive(coin) == IsPositiveDec(coin.Amount)

----------------------------------------------------------------------------
(* DecCoins *)

\* the merge loop of Plus, from indexes indexA, indexB with sum accumulated
RECURSIVE PlusLoop(_, _, _, _, _)
PlusLoop(coins, coinsB_, indexA, indexB, acc) ==
    LET lenA == Len(coins)
        lenB == Len(coinsB_)
    IN  IF indexA = lenA
        THEN IF indexB = lenB THEN acc
             ELSE acc \o SubSeq(coinsB_, indexB + 1, lenB)
        ELSE IF indexB = lenB
        THEN acc \o SubSeq(coins, indexA + 1, lenA)
        ELSE LET coinA == coins[indexA + 1]
                 coinB == coinsB_[indexB + 1]
                 cmp == Compare(coinA.Denom, coinB.Denom)
             IN  IF cmp = -1
                 THEN PlusLoop(coins, coinsB_, indexA + 1, indexB, Append(acc, coinA))
                 ELSE IF cmp = 0
                 THEN IF IsZero(Add(coinA.Amount, coinB.Amount))
                      THEN PlusLoop(coins, coinsB_, indexA + 1, indexB + 1, acc)
                      ELSE PlusLoop(coins, coinsB_, indexA + 1, indexB + 1,
                                    Append(acc, DecCoinPlus(coinA, coinB).val))
                 ELSE PlusLoop(coins, coinsB_, indexA, indexB + 1, Append(acc, coinB))

\* the merge loop with one slip, named by mode:
\*   "inverted"  the two unequal-denom branches are exchanged
\*   "firstWins" equal denoms emit the receiver's coin, the amounts are not added
\*   "keepZero"  equal denoms emit the summed coin even when the sum is zero
RECURSIVE PlusLoopSlip(_, _, _, _, _, _)
PlusLoopSlip(mode, coins, coinsB_, indexA, indexB, acc) ==
    LET lenA == Len(coins)
        lenB == Len(coinsB_)
    IN  IF indexA = lenA
        THEN IF indexB = lenB THEN acc
             ELSE acc \o SubSeq(coinsB_, indexB + 1, lenB)
        ELSE IF indexB = lenB
        THEN acc \o SubSeq(coins, indexA + 1, lenA)
        ELSE LET coinA == coins[indexA + 1]
                 coinB == coinsB_[indexB + 1]
                 c == Compare(coinA.Denom, coinB.Denom)
                 cmp == IF mode = "inverted" THEN 0 - c ELSE c
             IN  IF cmp = -1
                 THEN PlusLoopSlip(mode, coins, coinsB_, indexA + 1, indexB,
                                   Append(acc, coinA))
                 ELSE IF cmp = 0
                 THEN IF mode # "keepZero" /\ IsZero(Add(coinA.Amount, coinB.Amount))
                      THEN PlusLoopSlip(mode, coins, coinsB_, indexA + 1, indexB + 1, acc)
                      ELSE PlusLoopSlip(mode, coins, coinsB_, indexA + 1, indexB + 1,
                                        Append(acc, IF mode = "firstWins" THEN coinA
                                                    ELSE DecCoinPlus(coinA, coinB).val))
                 ELSE PlusLoopSlip(mode, coins, coinsB_, indexA, indexB + 1,
                                   Append(acc, coinB))

Plus_Inverted(coins, coinsB_) == PlusLoopSlip("inverted", coins, coinsB_, 0, 0, <<>>)
Plus_FirstWins(coins, coinsB_) == PlusLoopSlip("firstWins", coins, coinsB_, 0, 0, <<>>)
Plus_KeepZero(coins, coinsB_) == PlusLoopSlip("keepZero", coins, coinsB_, 0, 0, <<>>)

Plus(coins, coinsB_) == PlusLoop(coins, coinsB_, 0, 0, <<>>)

Negative(coins) ==
    [i \in 1..Len(coins) |-> DecCoin(coins[i].Denom, Neg(coins[i].Amount))]

\* slip: the subtrahend is added as it is, not negated
Minus_Adds(coins, coinsB_) == Plus(coins, coinsB_)

Minus(coins, coinsB_) == Plus(coins, Negative(coinsB_))

MulDecTruncate(coins, d) ==
    [i \in 1..Len(coins) |-> DecCoin(coins[i].Denom, MulTruncate(coins[i].Amount, d))]

\* slip: the lower half is cut one entry short
RECURSIVE AmountOf_ShortLowerHalf(_, _)
AmountOf_ShortLowerHalf(coins, denom) ==
    IF Len(coins) = 0 THEN ZeroDec
    ELSE IF Len(coins) = 1
    THEN IF coins[1].Denom = denom THEN coins[1].Amount ELSE ZeroDec
    ELSE LET midIdx == Len(coins) \div 2
             coin == coins[midIdx + 1]
         IN  IF Compare(denom, coin.Denom) = -1
             THEN AmountOf_ShortLowerHalf(SubSeq(coins, 1, midIdx - 1), denom)
             ELSE IF denom = coin.Denom THEN coin.Amount
             ELSE AmountOf_ShortLowerHalf(SubSeq(coins, midIdx + 2, Len(coins)), denom)

\* binary search for denom
RECURSIVE AmountOf(_, _)
AmountOf(coins, denom) ==
    IF Len(coins) = 0 THEN ZeroDec
    ELSE IF Len(coins) = 1
    THEN IF coins[1].Denom = denom THEN coins[1].Amount ELSE ZeroDec
    ELSE LET midIdx == Len(coins) \div 2
             coin == coins[midIdx + 1]
         IN  IF Compare(denom, coin.Denom) = -1
             THEN AmountOf(SubSeq(coins, 1, midIdx), denom)
             ELSE IF denom = coin.Denom THEN coin.Amount
             ELSE AmountOf(SubSeq(coins, midIdx + 2, Len(coins)), denom)

\* slip: the order test is < instead of <=, so a repeated denom passes
RECURSIVE IsValidLoop_AllowsEqual(_, _, _)
IsValidLoop_AllowsEqual(coins, i, lowDenom) ==
    IF i > Len(coins) THEN TRUE
    ELSE IF Validate(coins[i], TRUE) # "nil" THEN FALSE
    ELSE IF Compare(coins[i].Denom, lowDenom) = -1 THEN FALSE
    ELSE IsValidLoop_AllowsEqual(coins, i + 1, coins[i].Denom)

\* the loop of IsValid over coins[1:], from position i with lowDenom
RECURSIVE IsValidLoop(_, _, _)
IsValidLoop(coins, i, lowDenom) ==
    IF i > Len(coins) THEN TRUE
    ELSE IF Validate(coins[i], TRUE) # "nil" THEN FALSE
    ELSE IF Compare(coins[i].Denom, lowDenom) # 1 THEN FALSE
    ELSE IsValidLoop(coins, i + 1, coins[i].Denom)

RECURSIVE IsValid(_)
IsValid(coins) ==
    IF Len(coins) = 0 THEN TRUE
    ELSE IF Len(coins) = 1 THEN Validate(coins[1], TRUE) = "nil"
    ELSE IF ~IsValid(<<coins[1]>>) THEN FALSE
    ELSE IsValidLoop(coins, 2, coins[1].Denom)

\* the loop of TruncateDecimal from position i: (out, changeSum) or a panic
RECURSIVE TruncateLoop(_, _, _, _)
TruncateLoop(coins, i, outAcc, changeSum) ==
    IF i > Len(coins) THEN Return([out |-> outAcc, changeSum |-> changeSum])
    ELSE LET r == DecCoinTruncateDecimal(coins[i])
         IN  IF r.panic THEN Panic
             ELSE TruncateLoop(coins, i + 1, Append(outAcc, r.val.truncated),
                               Plus(changeSum, <<r.val.change>>))

TruncateDecimal(coins) == TruncateLoop(coins, 1, <<>>, <<>>)

----------------------------------------------------------------------------
(* Sorting *)

Less(coinI, coinJ) == Compare(coinI.Denom, coinJ.Denom) = -1

\* coin put into the sorted sequence acc, after the entries not greater than it
RECURSIVE Insert(_, _)
Insert(acc, coin) ==
    IF acc = <<>> THEN <<coin>>
    ELSE IF Less(coin, Head(acc)) THEN <<coin>> \o acc
    ELSE <<Head(acc)>> \o Insert(Tail(acc), coin)

\* sort.Sort on a short slice: insertion sort by Less
RECURSIVE Sort(_)
Sort(coins) ==
    IF coins = <<>> THEN <<>>
    ELSE Insert(Sort(SubSeq(coins, 1, Len(coins) - 1)), coins[Len(coins)])

----------------------------------------------------------------------------
(* Parsing: strings are byte sequences *)

COMMA == 44
SEMICOLON == 59
DOT == 46
MINUS == 45
PLUSSIGN == 43

IsSpace(b) == b \in {9, 10, 11, 12, 13, 32}
IsDigit(b) == b >= 48 /\ b <= 57
IsAlpha(b) == (b >= 65 /\ b <= 90) \/ (b >= 97 /\ b <= 122)
IsAlnum(b) == IsAlpha(b) \/ IsDigit(b)

RECURSIVE TrimLeft(_)
TrimLeft(s) == IF s # <<>> /\ IsSpace(Head(s)) THEN TrimLeft(Tail(s)) ELSE s

RECURSIVE TrimRight(_)
TrimRight(s) ==
    IF s # <<>> /\ IsSpace(s[Len(s)]) THEN TrimRight(SubSeq(s, 1, Len(s) - 1)) ELSE s

\* strings.TrimSpace
TrimSpace(s) == TrimRight(TrimLeft(s))

\* regexp ",|;" Split(s, -1) on a non-empty s: the pieces between separators
RECURSIVE SplitLoop(_, _, _)
SplitLoop(s, cur, acc) ==
    IF s = <<>> THEN Append(acc, cur)
    ELSE IF Head(s) = COMMA \/ Head(s) = SEMICOLON
    THEN SplitLoop(Tail(s), <<>>, Append(acc, cur))
    ELSE SplitLoop(Tail(s), Append(cur, Head(s)), acc)

Split(s) == SplitLoop(s, <<>>, <<>>)

\* the value of a digit string read as a decimal integer
RECURSIVE DigitsValue(_)
DigitsValue(ds) ==
    IF ds = <<>> THEN 0
    ELSE 10 * DigitsValue(SubSeq(ds, 1, Len(ds) - 1)) + (ds[Len(ds)] - 48)

AllDigits(ds) == \A i \in 1..Len(ds) : IsDigit(ds[i])

\* the position, from i on, of the first letter of s, or Len(s) + 1
RECURSIVE FirstAlpha(_, _)
FirstAlpha(s, i) ==
    IF i > Len(s) THEN i
    ELSE IF IsAlpha(s[i]) THEN i
    ELSE FirstAlpha(s, i + 1)

\* the position, from i on, of the first "." of s, or Len(s) + 1
RECURSIVE FirstDot(_, _)
FirstDot(s, i) ==
    IF i > Len(s) THEN i
    ELSE IF s[i] = DOT THEN i
    ELSE FirstDot(s, i + 1)

\* a decimal literal: optional sign, digits, optionally "." and digits
IsDecimalLiteral(a) ==
    LET signed == a # <<>> /\ (a[1] = MINUS \/ a[1] = PLUSSIGN)
        body == IF signed THEN Tail(a) ELSE a
        dot == FirstDot(body, 1)
        intPart == SubSeq(body, 1, dot - 1)
        fracPart == SubSeq(body, dot + 1, Len(body))
    IN  /\ intPart # <<>>
        /\ AllDigits(intPart)
        /\ dot <= Len(body) => (fracPart # <<>> /\ AllDigits(fracPart))

\* a denom token: a letter, then letters and digits
IsDenomToken(d) ==
    /\ d # <<>>
    /\ IsAlpha(d[1])
    /\ \A i \in 1..Len(d) : IsAlnum(d[i])

\* reDecCoin.FindStringSubmatch: the amount and denom substrings, or no match
MatchDecCoin(s) ==
    LET split == FirstAlpha(s, 1)
        amountStr == SubSeq(s, 1, split - 1)
        denomStr == SubSeq(s, split, Len(s))
    IN  IF IsDecimalLiteral(amountStr) /\ IsDenomToken(denomStr)
        THEN [matched |-> TRUE, amountStr |-> amountStr, denomStr |-> denomStr]
        ELSE [matched |-> FALSE]

\* NewDecFromStr: the Dec a decimal literal denotes; an error when it has more
\* than Precision fractional digits
NewDecFromStr(a) ==
    LET neg == a[1] = MINUS
        body == IF a[1] = MINUS \/ a[1] = PLUSSIGN THEN Tail(a) ELSE a
        dot == FirstDot(body, 1)
        intPart == SubSeq(body, 1, dot - 1)
        fracPart == SubSeq(body, dot + 1, Len(body))
        magnitude == DigitsValue(intPart) * precisionReuse
                     + DigitsValue(fracPart) * Pow10(Precision - Len(fracPart))
    IN  IF Len(fracPart) > Precision THEN [err |-> "err"]
        ELSE [err |-> "nil", dec |-> IF neg THEN 0 - magnitude ELSE magnitude]

parseDecCoinString(coinStr) ==
    LET m == MatchDecCoin(TrimSpace(coinStr))
    IN  IF ~m.matched THEN [err |-> "err"]
        ELSE LET amount == NewDecFromStr(m.amountStr)
             IN  IF amount.err # "nil" THEN [err |-> "err"]
                 ELSE [err |-> "nil", coin |-> DecCoin(m.denomStr, amount.dec)]

ParseDecCoin(coinStr) ==
    LET r == parseDecCoinString(coinStr)
    IN  IF r.err # "nil" THEN [err |-> "err"]
        ELSE IF Validate(r.coin, FALSE) # "nil" THEN [err |-> "err"]
        ELSE r

\* slip: a token that does not parse is skipped instead of failing the call
RECURSIVE ParseLoop_SkipsBad(_, _, _)
ParseLoop_SkipsBad(coinStrs, i, coins) ==
    IF i > Len(coinStrs) THEN [err |-> "nil", coins |-> coins]
    ELSE LET r == ParseDecCoin(coinStrs[i])
         IN  IF r.err # "nil" THEN ParseLoop_SkipsBad(coinStrs, i + 1, coins)
             ELSE ParseLoop_SkipsBad(coinStrs, i + 1, Append(coins, r.coin))

\* the loop of ParseDecCoins over the split pieces, from piece i
RECURSIVE ParseLoop(_, _, _)
ParseLoop(coinStrs, i, coins) ==
    IF i > Len(coinStrs) THEN [err |-> "nil", coins |-> coins]
    ELSE LET r == ParseDecCoin(coinStrs[i])
         IN  IF r.err # "nil" THEN [err |-> "err", coins |-> <<>>]
             ELSE ParseLoop(coinStrs, i + 1, Append(coins, r.coin))

\* (coins, err); a nil DecCoins is the empty sequence
ParseDecCoins(coinsStr) ==
    LET trimmed == TrimSpace(coinsStr)
    IN  IF Len(trimmed) = 0 THEN [err |-> "nil", coins |-> <<>>]
        ELSE LET parsed == ParseLoop(Split(trimmed), 1, <<>>)
             IN  IF parsed.err # "nil" THEN [err |-> "err", coins |-> <<>>]
                 ELSE LET sorted == Sort(parsed.coins)
                      IN  IF ~IsValid(sorted) THEN [err |-> "err", coins |-> <<>>]
                          ELSE [err |-> "nil", coins |-> sorted]

----------------------------------------------------------------------------
(* Formatting *)

\* the decimal digits of a natural number, as bytes
RECURSIVE NatDigits(_)
NatDigits(n) ==
    IF n < 10 THEN <<48 + n>>
    ELSE NatDigits(n \div 10) \o <<48 + (n % 10)>>

\* digit string ds padded on the left with "0" to width w
RECURSIVE PadZeros(_, _)
PadZeros(ds, w) == IF Len(ds) >= w THEN ds ELSE PadZeros(<<48>> \o ds, w)

\* Dec.String: the integer part, ".", and all Precision fractional digits
DecString(d) ==
    LET mag == IF d < 0 THEN 0 - d ELSE d
        body == NatDigits(mag \div precisionReuse) \o <<DOT>>
                \o PadZeros(NatDigits(mag % precisionReuse), Precision)
    IN  IF d < 0 THEN <<MINUS>> \o body ELSE body

\* slip: the denom is written before the amount
DecCoinString_DenomFirst(coin) ==
    IF ~IsPositive(coin) THEN <<>>
    ELSE coin.Denom \o DecString(coin.Amount)

DecCoinString(coin) ==
    IF ~IsPositive(coin) THEN <<>>
    ELSE DecString(coin.Amount) \o coin.Denom

\* the loop of DecCoins.String: the strings of the positive coins from i on
RECURSIVE StringLoop(_, _, _)
StringLoop(coins, i, acc) ==
    IF i > Len(coins) THEN acc
    ELSE IF IsPositive(coins[i])
    THEN StringLoop(coins, i + 1, Append(acc, DecCoinString(coins[i])))
    ELSE StringLoop(coins, i + 1, acc)

\* strings.Join(elems, ",")
RECURSIVE JoinComma(_)
JoinComma(elems) ==
    IF elems = <<>> THEN <<>>
    ELSE IF Len(elems) = 1 THEN elems[1]
    ELSE elems[1] \o <<COMMA>> \o JoinComma(Tail(elems))

DecCoinsString(coins) ==
    IF Len(coins) = 0 THEN <<>>
    ELSE JoinComma(StringLoop(coins, 1, <<>>))

----------------------------------------------------------------------------
(* Operand universes *)

Half == precisionReuse \div 2

\* the smallest denom of a non-empty set, by byte order
MinDenom(S) == CHOOSE d \in S : \A e \in S : Compare(d, e) # 1

RECURSIVE SortDenoms(_)
SortDenoms(S) ==
    IF S = {} THEN <<>>
    ELSE LET m == MinDenom(S) IN <<m>> \o SortDenoms(S \ {m})

\* the DecCoins with the denoms of S in increasing order and the amounts of f
DenomOrder == SortDenoms(AllDenoms)

MkCoins(S, f) ==
    LET In(d) == d \in S
        ds == SelectSeq(DenomOrder, In)
    IN  [i \in 1..Len(ds) |-> DecCoin(ds[i], f[ds[i]])]

\* every sorted, denom-unique DecCoins over denoms D with amounts in Amts
SortedSets(D, Amts) ==
    UNION { { MkCoins(S, f) : f \in [S -> Amts] } : S \in SUBSET D }

SignedAmounts == { k * Half : k \in (0 - MaxHalves)..MaxHalves }
PositiveAmounts == { k * Half : k \in 1..MaxHalves }

\* sorted, denom-unique operands of any sign, zero entries included
Operands == SortedSets(GoodDenoms, SignedAmounts)
\* canonical sets
Canonical == SortedSets(GoodDenoms, PositiveAmounts)

\* what the package's own operations make of canonical sets: the negated set,
\* the set scaled by MulDecTruncate, and the {change} singleton of a truncation
Scalars == {ZeroDec, 1, Half}
GoodCoins == { DecCoin(d, a) : d \in GoodDenoms, a \in PositiveAmounts }
Producible ==
    Canonical
    \cup { Negative(X) : X \in Canonical }
    \cup { MulDecTruncate(X, d) : X \in Canonical, d \in Scalars }
    \cup { <<DecCoinTruncateDecimal(c).val.change>> : c \in GoodCoins }

NoPaid == [d \in AllDenoms |-> 0]

----------------------------------------------------------------------------
(* Reading a set *)

\* denoms strictly increasing in byte order
StrictlyIncreasing(coins) ==
    \A i \in 1..(Len(coins) - 1) : Compare(coins[i].Denom, coins[i + 1].Denom) = -1

HasDenom(coins, d) == \E i \in 1..Len(coins) : coins[i].Denom = d
HasZero(coins) == \E i \in 1..Len(coins) : coins[i].Amount = 0
HasNegativeEntry(coins) == \E i \in 1..Len(coins) : coins[i].Amount < 0

\* the amount of denom d in coins by a linear scan (0 when absent)
RECURSIVE ScanAmount(_, _)
ScanAmount(coins, d) ==
    IF coins = <<>> THEN 0
    ELSE (IF Head(coins).Denom = d THEN Head(coins).Amount ELSE 0)
         + ScanAmount(Tail(coins), d)

----------------------------------------------------------------------------
(* Set arithmetic on two operands *)

InitSets ==
    /\ op = "init"
    /\ coinsA \in Operands
    /\ coinsB \in Operands
    /\ coinsC = <<>>
    /\ sum = <<>>
    /\ out = <<>>
    /\ status = "ok"
    /\ valid = FALSE
    /\ str = <<>>
    /\ pool = <<>>
    /\ paid = NoPaid
    /\ p0 = <<>>
    /\ text = <<>>
    /\ dn = <<>>
    /\ amt = ZeroDec

DoPlus ==
    /\ op = "init"
    /\ op' = "Plus"
    /\ sum' = Plus(coinsA, coinsB)
    /\ UNCHANGED <<coinsA, coinsB, coinsC, out, status, valid, str, pool, paid, p0, text, dn, amt>>

DoMinus ==
    /\ op = "init"
    /\ op' = "Minus"
    /\ sum' = Minus(coinsA, coinsB)
    /\ UNCHANGED <<coinsA, coinsB, coinsC, out, status, valid, str, pool, paid, p0, text, dn, amt>>

DoNegative ==
    /\ op = "init"
    /\ op' = "Negative"
    /\ sum' = Negative(coinsA)
    /\ UNCHANGED <<coinsA, coinsB, coinsC, out, status, valid, str, pool, paid, p0, text, dn, amt>>

DoTruncateDecimal ==
    /\ op = "init"
    /\ op' = "TruncateDecimal"
    /\ LET r == TruncateDecimal(coinsA)
       IN  IF r.panic
           THEN /\ status' = "panic"
                /\ UNCHANGED <<sum, out>>
           ELSE /\ status' = "ok"
                /\ sum' = r.val.changeSum
                /\ out' = r.val.out
    /\ UNCHANGED <<coinsA, coinsB, coinsC, valid, str, pool, paid, p0, text, dn, amt>>

NextSets == DoPlus \/ DoMinus \/ DoNegative

SpecSets == InitSets /\ [][NextSets]_vars

----------------------------------------------------------------------------
(* Truncation of one operand, bad denoms included *)

TruncAmounts == { k * Half : k \in (0 - MaxTruncHalves)..MaxTruncHalves }

InitTrunc ==
    /\ op = "init"
    /\ \E S \in SUBSET AllDenoms : \E f \in [S -> TruncAmounts] : coinsA = MkCoins(S, f)
    /\ coinsB = <<>>
    /\ coinsC = <<>>
    /\ sum = <<>>
    /\ out = <<>>
    /\ status = "ok"
    /\ valid = FALSE
    /\ str = <<>>
    /\ pool = <<>>
    /\ paid = NoPaid
    /\ p0 = <<>>
    /\ text = <<>>
    /\ dn = <<>>
    /\ amt = ZeroDec

NextTrunc == DoTruncateDecimal

SpecTrunc == InitTrunc /\ [][NextTrunc]_vars

----------------------------------------------------------------------------
(* Sums of three canonical sets *)

InitAssoc ==
    /\ op = "init"
    /\ coinsA \in Canonical
    /\ coinsB \in Canonical
    /\ coinsC \in Canonical
    /\ sum = <<>>
    /\ out = <<>>
    /\ status = "ok"
    /\ valid = FALSE
    /\ str = <<>>
    /\ pool = <<>>
    /\ paid = NoPaid
    /\ p0 = <<>>
    /\ text = <<>>
    /\ dn = <<>>
    /\ amt = ZeroDec

\* coins.Plus(coinsB).Plus(coinsC)
DoPlusPlus ==
    /\ op = "init"
    /\ op' = "PlusPlus"
    /\ sum' = Plus(Plus(coinsA, coinsB), coinsC)
    /\ UNCHANGED <<coinsA, coinsB, coinsC, out, status, valid, str, pool, paid, p0, text, dn, amt>>

NextAssoc == DoPlus \/ DoPlusPlus

SpecAssoc == InitAssoc /\ [][NextAssoc]_vars

----------------------------------------------------------------------------
(* Settlement: shares are taken from a pool, truncated and paid out, and    *)
(* the change goes back to the pool.                                       *)

SettleDenoms == {dnA, dnB}
PoolAmounts == { k * Half : k \in 1..MaxTruncHalves }
ShareAmounts == { k * Half : k \in 0..MaxTruncHalves }

\* the canonical pools a settlement starts from
Pools == SortedSets(SettleDenoms, PoolAmounts)

\* the shares that may be taken from pool p: 0 <= S[d] <= p[d] for every denom
AllShares == SortedSets(SettleDenoms, ShareAmounts)

Shares(p) ==
    { S \in AllShares :
        \A i \in 1..Len(S) : S[i].Amount <= AmountOf(p, S[i].Denom) }

InitSettle ==
    /\ op = "init"
    /\ p0 \in Pools
    /\ text = <<>>
    /\ dn = <<>>
    /\ amt = ZeroDec
    /\ pool = p0
    /\ paid = NoPaid
    /\ coinsA = <<>>
    /\ coinsB = <<>>
    /\ coinsC = <<>>
    /\ sum = <<>>
    /\ out = <<>>
    /\ status = "ok"
    /\ valid = FALSE
    /\ str = <<>>

\* paid, with every coin of the Coins I added to its denom
Pay(pd, I) == [d \in AllDenoms |-> pd[d] + ScanAmount(I, d)]

Settle ==
    /\ status = "ok"
    /\ \E S \in Shares(pool) :
         LET r == TruncateDecimal(S)
         IN  /\ op' = "Settle"
             /\ coinsA' = S
             /\ IF r.panic
                THEN /\ status' = "panic"
                     /\ UNCHANGED <<sum, out, pool, paid>>
                ELSE /\ status' = "ok"
                     /\ out' = r.val.out
                     /\ sum' = r.val.changeSum
                     /\ paid' = Pay(paid, r.val.out)
                     /\ pool' = Plus(Minus(pool, S), r.val.changeSum)
    /\ UNCHANGED <<coinsB, coinsC, valid, str, p0, text, dn, amt>>

NextSettle == Settle

SpecSettle == InitSettle /\ [][NextSettle]_vars

----------------------------------------------------------------------------
(* IsValid on any coin sequence: unsorted, repeated denoms, bad entries *)

AnyAmounts == {0 - Half, 0, Half}
AnyCoins == { DecCoin(d, a) : d \in AllDenoms, a \in AnyAmounts }

InitValid ==
    /\ op = "init"
    /\ \E n \in 0..MaxLen : coinsA \in [1..n -> AnyCoins]
    /\ coinsB = <<>>
    /\ coinsC = <<>>
    /\ sum = <<>>
    /\ out = <<>>
    /\ status = "ok"
    /\ valid = FALSE
    /\ str = <<>>
    /\ pool = <<>>
    /\ paid = NoPaid
    /\ p0 = <<>>
    /\ text = <<>>
    /\ dn = <<>>
    /\ amt = ZeroDec

DoIsValid ==
    /\ op = "init"
    /\ op' = "IsValid"
    /\ valid' = IsValid(coinsA)
    /\ UNCHANGED <<coinsA, coinsB, coinsC, sum, out, status, str, pool, paid, p0, text, dn, amt>>

NextValid == DoIsValid

SpecValid == InitValid /\ [][NextValid]_vars

----------------------------------------------------------------------------
(* ParseDecCoins on strings built from a few tokens *)

Tokens ==
    { <<49, 97>>,          \* "1a"
      <<48, 97>>,          \* "0a"
      <<49, 46, 53, 98>>,  \* "1.5b"
      <<50, 97, 98>>,      \* "2ab"
      <<32, 49, 98>>,      \* " 1b"
      <<97>>,              \* "a"
      <<>>,                \* ""
      <<45, 49, 97>>,      \* "-1a"
      <<49, 66>> }         \* "1B"

Separators == {COMMA, SEMICOLON}
Padding == {<<>>, <<SPACE>>}

\* toks[1] seps[1] toks[2] ... toks[n]
RECURSIVE Join(_, _, _)
Join(toks, seps, n) ==
    IF n = 1 THEN toks[1]
    ELSE Join(toks, seps, n - 1) \o <<seps[n - 1]>> \o toks[n]

InitParse ==
    /\ op = "init"
    /\ \E n \in 1..MaxTokens :
         \E toks \in [1..n -> Tokens] :
           \E seps \in [1..(n - 1) -> Separators] :
             \E lead \in Padding, trail \in Padding :
               str = lead \o Join(toks, seps, n) \o trail
    /\ coinsA = <<>>
    /\ coinsB = <<>>
    /\ coinsC = <<>>
    /\ sum = <<>>
    /\ out = <<>>
    /\ status = "ok"
    /\ valid = FALSE
    /\ pool = <<>>
    /\ paid = NoPaid
    /\ p0 = <<>>
    /\ text = <<>>
    /\ dn = <<>>
    /\ amt = ZeroDec

DoParseDecCoins ==
    /\ op = "init"
    /\ op' = "ParseDecCoins"
    /\ LET r == ParseDecCoins(str)
       IN  /\ sum' = r.coins
           /\ status' = IF r.err = "nil" THEN "ok" ELSE "error"
    /\ UNCHANGED <<coinsA, coinsB, coinsC, out, valid, str, pool, paid, p0, text, dn, amt>>

\* String of the set ParseDecCoins returned
DoString ==
    /\ op = "ParseDecCoins"
    /\ op' = "String"
    /\ text' = DecCoinsString(sum)
    /\ UNCHANGED <<coinsA, coinsB, coinsC, sum, out, status, valid, str, pool, paid, p0,
                   dn, amt>>

NextParse == DoParseDecCoins \/ DoString

SpecParse == InitParse /\ [][NextParse]_vars

----------------------------------------------------------------------------
(* Plus and Minus on two single coins; coinsA and coinsB hold one coin each *)

InitCoin ==
    /\ op = "init"
    /\ \E d \in AllDenoms, a \in SignedAmounts : coinsA = <<DecCoin(d, a)>>
    /\ \E d \in AllDenoms, a \in SignedAmounts : coinsB = <<DecCoin(d, a)>>
    /\ coinsC = <<>>
    /\ sum = <<>>
    /\ out = <<>>
    /\ status = "ok"
    /\ valid = FALSE
    /\ str = <<>>
    /\ pool = <<>>
    /\ paid = NoPaid
    /\ p0 = <<>>
    /\ text = <<>>
    /\ dn = <<>>
    /\ amt = ZeroDec

\* the outcome of a call on single coins: the coin returned, or a panic
CoinOutcome(r) ==
    IF r.panic
    THEN /\ status' = "panic"
         /\ UNCHANGED sum
    ELSE /\ status' = "ok"
         /\ sum' = <<r.val>>

DoCoinPlus ==
    /\ op = "init"
    /\ op' = "CoinPlus"
    /\ CoinOutcome(DecCoinPlus(coinsA[1], coinsB[1]))
    /\ UNCHANGED <<coinsA, coinsB, coinsC, out, valid, str, pool, paid, p0, text, dn, amt>>

DoCoinMinus ==
    /\ op = "init"
    /\ op' = "CoinMinus"
    /\ CoinOutcome(DecCoinMinus(coinsA[1], coinsB[1]))
    /\ UNCHANGED <<coinsA, coinsB, coinsC, out, valid, str, pool, paid, p0, text, dn, amt>>

NextCoin == DoCoinPlus \/ DoCoinMinus

SpecCoin == InitCoin /\ [][NextCoin]_vars

----------------------------------------------------------------------------
(* AmountOf on sorted sets of up to seven denoms *)

dnC == <<99>>    \* "c"
dnD == <<100>>   \* "d"

\* the denoms of the searched sets
SearchDenoms == AllDenoms \cup {dnC, dnD}
\* the denoms asked for: those, one sorting before all, one between, one after all
dnFirst == <<48>>       \* "0"
dnBetween == <<97, 97>> \* "aa"
dnLast == <<122>>       \* "z"
QueryDenoms == SearchDenoms \cup {dnFirst, dnBetween, dnLast}

SearchOrder == SortDenoms(SearchDenoms)

\* the DecCoins with the denoms of S in increasing order and the amounts of f
MkSearchCoins(S, f) ==
    LET In(d) == d \in S
        ds == SelectSeq(SearchOrder, In)
    IN  [i \in 1..Len(ds) |-> DecCoin(ds[i], f[ds[i]])]

InitSearch ==
    /\ op = "init"
    /\ \E S \in SUBSET SearchDenoms : \E f \in [S -> PositiveAmounts] :
         coinsA = MkSearchCoins(S, f)
    /\ dn \in QueryDenoms
    /\ coinsB = <<>>
    /\ coinsC = <<>>
    /\ sum = <<>>
    /\ out = <<>>
    /\ status = "ok"
    /\ valid = FALSE
    /\ str = <<>>
    /\ pool = <<>>
    /\ paid = NoPaid
    /\ p0 = <<>>
    /\ text = <<>>
    /\ amt = ZeroDec

DoAmountOf ==
    /\ op = "init"
    /\ op' = "AmountOf"
    /\ amt' = AmountOf(coinsA, dn)
    /\ UNCHANGED <<coinsA, coinsB, coinsC, sum, out, status, valid, str, pool, paid, p0,
                   text, dn>>

NextSearch == DoAmountOf

SpecSearch == InitSearch /\ [][NextSearch]_vars

----------------------------------------------------------------------------
(* Properties *)

\* C2 as claimed, on sets whose denoms are acceptable: for any sorted
\* denom-unique DecCoins, whatever the sign of its amounts, TruncateDecimal
\* returns normally, integer part plus change equals the original per denom,
\* and every change entry is in [0, 1).
C2_Original ==
    (op = "TruncateDecimal" /\ \A i \in 1..Len(coinsA) : coinsA[i].Denom \in GoodDenoms) =>
        /\ status = "ok"
        /\ \A d \in AllDenoms :
              NewDecFromInt(ScanAmount(out, d)) + AmountOf(sum, d) = AmountOf(coinsA, d)
        /\ \A i \in 1..Len(sum) : sum[i].Amount >= 0 /\ sum[i].Amount < OneDec

AllPassValidate(coins) == \A i \in 1..Len(coins) : Validate(coins[i], FALSE) = "nil"

\* C2 amended: when every entry of the sorted denom-unique DecCoins passes
\* Validate(false) (no negative amount, acceptable denom), TruncateDecimal
\* returns normally with one integer coin per entry, integer part plus change
\* equals the original per denom and every change entry is in [0, 1); when
\* some entry does not pass, it panics.
C2_TruncateConserves ==
    op = "TruncateDecimal" =>
        IF AllPassValidate(coinsA)
        THEN /\ status = "ok"
             /\ Len(out) = Len(coinsA)
             /\ \A d \in AllDenoms :
                   NewDecFromInt(ScanAmount(out, d)) + AmountOf(sum, d)
                       = AmountOf(coinsA, d)
             /\ \A i \in 1..Len(sum) : sum[i].Amount >= 0 /\ sum[i].Amount < OneDec
        ELSE status = "panic"

\* a truncation of a two-denom set with a fractional and a whole amount
C2_Witness ==
    /\ op = "TruncateDecimal"
    /\ status = "ok"
    /\ Len(coinsA) >= 2
    /\ \E i \in 1..Len(coinsA) : coinsA[i].Amount = OneDec + Half
    /\ \E i \in 1..Len(out) : out[i].Amount = 1
    /\ \E i \in 1..Len(sum) : sum[i].Amount = Half

\* C3 as claimed: for a canonical DecCoins both sets returned by TruncateDecimal
\* are sorted by strictly increasing denom and hold no zero-amount entry.
C3_TruncateCanonical ==
    (op = "TruncateDecimal" /\ IsValid(coinsA)) =>
        /\ status = "ok"
        /\ StrictlyIncreasing(sum) /\ ~HasZero(sum)
        /\ StrictlyIncreasing(out) /\ ~HasZero(out)

\* C4: the sum of two canonical sets is canonical: denoms strictly increasing,
\* every amount positive, and IsValid holds on it as returned.
C4_PlusCanonical ==
    (op = "Plus" /\ IsValid(coinsA) /\ IsValid(coinsB)) =>
        /\ StrictlyIncreasing(sum)
        /\ \A i \in 1..Len(sum) : sum[i].Amount > 0
        /\ IsValid(sum)

\* two canonical operands that interleave and share a denom
C4_Witness ==
    /\ op = "Plus"
    /\ IsValid(coinsA) /\ IsValid(coinsB)
    /\ Len(coinsA) = 2 /\ Len(coinsB) = 2
    /\ coinsA # coinsB
    /\ Len(sum) = 3

\* C5: for canonical A and B and every denom d, present in either, both or
\* neither, AmountOf(d) of the sum is the sum of the operands' AmountOf(d).
C5_PlusAmountOf ==
    (op = "Plus" /\ IsValid(coinsA) /\ IsValid(coinsB)) =>
        \A d \in AllDenoms :
            AmountOf(sum, d) = AmountOf(coinsA, d) + AmountOf(coinsB, d)

\* one denom in both operands, one in A only, one in B only, others in neither
C5_Witness ==
    /\ op = "Plus"
    /\ IsValid(coinsA) /\ IsValid(coinsB)
    /\ HasDenom(coinsA, dnA) /\ HasDenom(coinsB, dnA)
    /\ HasDenom(coinsA, dnAB) /\ ~HasDenom(coinsB, dnAB)
    /\ ~HasDenom(coinsA, dnB) /\ HasDenom(coinsB, dnB)
    /\ AmountOf(sum, dnA) = AmountOf(coinsA, dnA) + AmountOf(coinsB, dnA)
    /\ AmountOf(sum, dnUpper) = 0

\* C7: for a canonical A, A.Minus(A), which is A.Plus(A.Negative()), is empty.
C7_MinusSelfEmpty ==
    /\ (op = "Minus" /\ coinsA = coinsB /\ IsValid(coinsA)) => sum = <<>>
    /\ (op = "Negative" /\ IsValid(coinsA)) => Plus(coinsA, sum) = <<>>

\* a three-denom canonical set subtracted from itself
C7_Witness ==
    /\ op = "Minus"
    /\ coinsA = coinsB
    /\ IsValid(coinsA)
    /\ Len(coinsA) = 3
    /\ sum = <<>>

\* C8 as claimed: Plus never returns a set in which some coin has a 0 amount,
\* for any two sorted denom-unique operands the package's operations produce:
\* canonical sets, negated sets, sets scaled by MulDecTruncate (which keep
\* their zero entries) and the {change} singleton of a truncation.
C8_PlusNeverZero ==
    (op = "Plus" /\ coinsA \in Producible /\ coinsB \in Producible) => ~HasZero(sum)

\* C6: Plus is commutative and associative on canonical sets, as entry-by-entry
\* equal sequences.
C6_PlusCommAssoc ==
    /\ op = "Plus" => sum = Plus(coinsB, coinsA)
    /\ op = "PlusPlus" => sum = Plus(coinsA, Plus(coinsB, coinsC))

\* three different canonical operands over three denoms, with a shared denom
C6_Witness ==
    /\ op = "PlusPlus"
    /\ coinsA # coinsB /\ coinsB # coinsC /\ coinsA # coinsC
    /\ Len(coinsA) = 2 /\ Len(coinsB) = 2 /\ Len(coinsC) = 2
    /\ Len(sum) = 3
    /\ sum = Plus(coinsA, Plus(coinsB, coinsC))

\* C1: in every state reached by settlement steps from a canonical pool, for
\* every denom, what was paid out so far plus what the pool holds is the
\* original pool's amount.
C1_SettleConserves ==
    \A d \in AllDenoms :
        NewDecFromInt(paid[d]) + AmountOf(pool, d) = AmountOf(p0, d)

\* a step that paid out a whole coin, left a fraction in the pool as change,
\* and left another denom untouched
C1_Witness ==
    /\ op = "Settle"
    /\ status = "ok"
    /\ \E i \in 1..Len(coinsA) : coinsA[i].Amount = OneDec + Half
    /\ paid[dnA] >= 1
    /\ AmountOf(pool, dnA) = Half
    /\ AmountOf(p0, dnB) > 0
    /\ AmountOf(pool, dnB) < AmountOf(p0, dnB)

AcceptableDenom(d) ==
    /\ \A i \in 1..Len(d) : d[i] # SPACE
    /\ \A i \in 1..Len(d) : ~IsUpper(d[i])

\* C9: IsValid returns true exactly when the sequence is empty, or every entry
\* has a positive amount and an acceptable denom and each denom is strictly
\* greater than the one before; so it rejects any unsorted sequence, repeated
\* denom, and zero or negative entry at any position.
C9_IsValidExact ==
    op = "IsValid" =>
        (valid <=>
            \/ Len(coinsA) = 0
            \/ /\ \A i \in 1..Len(coinsA) :
                     coinsA[i].Amount > 0 /\ AcceptableDenom(coinsA[i].Denom)
               /\ StrictlyIncreasing(coinsA))

\* a sorted three-coin sequence rejected only for the zero amount of its last entry
C9_Witness ==
    /\ op = "IsValid"
    /\ Len(coinsA) = 3
    /\ StrictlyIncreasing(coinsA)
    /\ coinsA[1].Amount > 0 /\ coinsA[2].Amount > 0 /\ coinsA[3].Amount = 0
    /\ \A i \in 1..3 : AcceptableDenom(coinsA[i].Denom)
    /\ ~valid

Blank(s) == \A i \in 1..Len(s) : IsSpace(s[i])
Pieces(s) == Split(TrimSpace(s))
PieceFails(s) == \E i \in 1..Len(Pieces(s)) : ParseDecCoin(Pieces(s)[i]).err # "nil"
PieceCoins(s) == [i \in 1..Len(Pieces(s)) |-> ParseDecCoin(Pieces(s)[i]).coin]
RepeatsDenom(coins) ==
    \E i, j \in 1..Len(coins) : i # j /\ coins[i].Denom = coins[j].Denom

\* C10: ParseDecCoins is all-or-nothing.  A blank string gives the empty set
\* and no error; otherwise a token that fails to parse or validate, a repeated
\* denom or a zero amount gives an error; an error always comes with the nil
\* set; and a result without error is sorted, passes IsValid and holds every
\* token's coin.
C10_ParseAllOrNothing ==
    op = "ParseDecCoins" =>
        /\ Blank(str) => (status = "ok" /\ sum = <<>>)
        /\ status = "error" => sum = <<>>
        /\ (~Blank(str) /\ PieceFails(str)) => status = "error"
        /\ (~Blank(str) /\ ~PieceFails(str)
              /\ (RepeatsDenom(PieceCoins(str)) \/ HasZero(PieceCoins(str))))
             => status = "error"
        /\ (status = "ok" /\ ~Blank(str)) =>
              /\ StrictlyIncreasing(sum)
              /\ IsValid(sum)
              /\ Len(sum) = Len(Pieces(str))
              /\ \A i \in 1..Len(Pieces(str)) :
                    \E j \in 1..Len(sum) : sum[j] = PieceCoins(str)[i]

\* three tokens of which the last does not parse: an error and no coins
C10_Witness ==
    /\ op = "ParseDecCoins"
    /\ Len(Pieces(str)) = 3
    /\ ParseDecCoin(Pieces(str)[1]).err = "nil"
    /\ ParseDecCoin(Pieces(str)[2]).err = "nil"
    /\ ParseDecCoin(Pieces(str)[3]).err # "nil"
    /\ status = "error"
    /\ sum = <<>>

\* C12: DecCoin.Plus and DecCoin.Minus on coins whose denoms differ return no
\* value and end in a panic, which is not the error outcome of Validate and the
\* parsers; on equal denoms they return a coin of that denom with the exact sum
\* (difference) of the amounts, a negative result neither rejected nor clamped.
C12_CoinPlusMinus ==
    (op = "CoinPlus" \/ op = "CoinMinus") =>
        IF coinsA[1].Denom # coinsB[1].Denom
        THEN status = "panic" /\ status # "error" /\ sum = <<>>
        ELSE /\ status = "ok"
             /\ Len(sum) = 1
             /\ sum[1].Denom = coinsA[1].Denom
             /\ op = "CoinPlus" => sum[1].Amount = coinsA[1].Amount + coinsB[1].Amount
             /\ op = "CoinMinus" => sum[1].Amount = coinsA[1].Amount - coinsB[1].Amount

\* a subtraction on equal denoms whose result is negative and is returned as it is
C12_Witness ==
    /\ op = "CoinMinus"
    /\ coinsA[1].Denom = coinsB[1].Denom
    /\ coinsA[1].Amount = Half /\ coinsB[1].Amount = OneDec
    /\ status = "ok"
    /\ sum = <<DecCoin(coinsA[1].Denom, 0 - Half)>>

\* the position of denom d in coins, or 0 when absent
PositionOf(coins, d) ==
    IF HasDenom(coins, d) THEN CHOOSE i \in 1..Len(coins) : coins[i].Denom = d ELSE 0

\* C13: on every DecCoins sorted by strictly increasing denom, of any length,
\* and for every denom, AmountOf returns the amount of the entry with that
\* denom when there is one and zero otherwise: the binary search agrees with a
\* linear scan at the first, last and middle positions and for absent denoms
\* sorting before, between and after the entries.
C13_AmountOfIsScan ==
    op = "AmountOf" =>
        /\ StrictlyIncreasing(coinsA)
        /\ IF HasDenom(coinsA, dn)
           THEN amt = coinsA[PositionOf(coinsA, dn)].Amount
           ELSE amt = ZeroDec
        /\ amt = ScanAmount(coinsA, dn)

\* the last of seven entries is asked for and found
C13_Witness ==
    /\ op = "AmountOf"
    /\ Len(coinsA) = 7
    /\ dn = coinsA[7].Denom
    /\ amt = coinsA[7].Amount
    /\ amt > 0

\* a separator-delimited list of tokens each of which ParseDecCoin accepts
WellFormed(s) == ~Blank(s) /\ ~PieceFails(s)

\* the coins of seq with a positive amount, in the order of seq
PositiveOnes(seq) == LET Pos(c) == c.Amount > 0 IN SelectSeq(seq, Pos)

\* "<amount><denom>" of each coin of seq, joined by commas
RECURSIVE Rendered(_)
Rendered(seq) ==
    IF seq = <<>> THEN <<>>
    ELSE LET one == DecString(Head(seq).Amount) \o Head(seq).Denom
         IN  IF Len(seq) = 1 THEN one
             ELSE one \o <<COMMA>> \o Rendered(Tail(seq))

\* the tokens of s with a positive amount, ordered by denom and joined by commas
ZeroStripped(s) == Rendered(Sort(PositiveOnes(PieceCoins(s))))

\* C11 as claimed: for any well-formed set string, zero amounts allowed,
\* ParseDecCoins succeeds and String of the result is the tokens with a
\* positive amount, ordered by denom and joined by commas.
C11_Original ==
    ((op = "ParseDecCoins" \/ op = "String") /\ WellFormed(str)) =>
        /\ status = "ok"
        /\ op = "String" => text = ZeroStripped(str)

\* C11 amended: for a well-formed set string whose tokens all have a positive
\* amount and pairwise different denoms, ParseDecCoins succeeds and String of
\* the result is the tokens' coins ordered by denom, each written
\* <amount><denom>, joined by commas; with a zero-amount token or a repeated
\* denom ParseDecCoins returns an error and the nil set, whose String is empty.
C11_ParseThenString ==
    ((op = "ParseDecCoins" \/ op = "String") /\ WellFormed(str)) =>
        IF HasZero(PieceCoins(str)) \/ RepeatsDenom(PieceCoins(str))
        THEN /\ status = "error"
             /\ sum = <<>>
             /\ op = "String" => text = <<>>
        ELSE /\ status = "ok"
             /\ op = "String" =>
                   /\ text = ZeroStripped(str)
                   /\ text = Rendered(sum)

\* three tokens given out of order: parsed, sorted and written back in order
C11_Witness ==
    /\ op = "String"
    /\ WellFormed(str)
    /\ Len(Pieces(str)) = 3
    /\ ~StrictlyIncreasing(PieceCoins(str))
    /\ status = "ok"
    /\ Len(sum) = 3
    /\ text = ZeroStripped(str)
    /\ text # TrimSpace(str)

====
